---- MODULE Spec2Model ----
(***************************************************************************)
(* Form Kit: the custom-validation subsystem (registry, runner,            *)
(* orchestrator, built-in rules) and the form-initialisation lifecycle.    *)
(*                                                                         *)
(* Field values are sequences of one-character strings, so that trimming,  *)
(* digit stripping, length and date parsing are computed, not looked up.   *)
(* Messages, names and style classes are opaque strings.                   *)
(***************************************************************************)
EXTENDS Integers, Sequences, FiniteSets, TLC

\* ------------------------------------------------------------------ bounds
\* Longest validator-config list handed to the runner.
MaxConfigs == 2
\* Number of registerValidator calls made after the built-ins are installed
\* (registry specification).
MaxRegistrations == 2

\* Number of network submissions started in one run of the form lifecycle.
MaxRequests == 2
MaxEntries == 3

\* ------------------------------------------------------- JavaScript values
\* The value of a missing property / Map.get of a missing key / querySelector
\* of a missing element.
Undefined == "<undefined>"

EmptyStr == <<>>
Digits == <<"0", "1", "2", "3", "4", "5", "6", "7", "8", "9">>
IsDigit(c) == \E i \in 1..Len(Digits) : Digits[i] = c
DigitVal(c) == (CHOOSE i \in 1..Len(Digits) : Digits[i] = c) - 1
IsSpace(c) == c = " "

\* A field value that is undefined (formData.x of a name the form lacks)
UndefinedValue == <<Undefined>>
\* !x for a field value x (the empty string and undefined are falsy)
Falsy(x) == x = UndefinedValue \/ x = EmptyStr
\* !m for a message or option string m
FalsyText(m) == m = Undefined \/ m = ""
\* a || b on message strings
OrElse(a, b) == IF FalsyText(a) THEN b ELSE a

\* value.replace(/\D/g, '')
DigitsOnly(s) == SelectSeq(s, IsDigit)

RECURSIVE TrimStart(_)
TrimStart(s) ==
  IF s # <<>> /\ IsSpace(Head(s)) THEN TrimStart(Tail(s)) ELSE s
RECURSIVE TrimEnd(_)
TrimEnd(s) ==
  IF s # <<>> /\ IsSpace(s[Len(s)]) THEN TrimEnd(SubSeq(s, 1, Len(s) - 1)) ELSE s
\* String.prototype.trim
Trim(s) == TrimEnd(TrimStart(s))

\* Two decimal digits at positions i, i+1
Num2(s, i) == DigitVal(s[i]) * 10 + DigitVal(s[i + 1])
Num4(s, i) == Num2(s, i) * 100 + Num2(s, i + 2)

\* new Date(str) for the local date-time form "YYYY-MM-DDTHH:MM" produced by
\* a datetime input; any other text is an Invalid Date (getTime() is NaN).
\* time is a count of minutes that orders valid dates as getTime() does.
InvalidDate == [nan |-> TRUE, time |-> 0]
NewDate(s) ==
  IF /\ Len(s) = 16
     /\ s[5] = "-" /\ s[8] = "-" /\ s[11] = "T" /\ s[14] = ":"
     /\ \A i \in {1, 2, 3, 4, 6, 7, 9, 10, 12, 13, 15, 16} : IsDigit(s[i])
  THEN LET y == Num4(s, 1)
           mo == Num2(s, 6)
           d == Num2(s, 9)
           h == Num2(s, 12)
           mi == Num2(s, 15)
       IN IF mo \in 1..12 /\ d \in 1..31 /\ h \in 0..23 /\ mi \in 0..59
          THEN [nan |-> FALSE,
                time |-> ((((y * 12 + (mo - 1)) * 31 + (d - 1)) * 24 + h) * 60) + mi]
          ELSE InvalidDate
  ELSE InvalidDate
\* isNaN(date.getTime())
IsNaNTime(date) == date.nan
\* endDate <= startDate on two Date objects (false when either is NaN)
DateLeq(a, b) == ~a.nan /\ ~b.nan /\ a.time <= b.time

\* ------------------------------------------------------------ DOM elements
IsValidCls == "is-valid"
IsInvalidCls == "is-invalid"
TouchedCls == "was-validated-field"
WasValidatedCls == "was-validated"
\* textContent of an input that has no .invalid-feedback sibling
NoFeedback == "<no-feedback-element>"

\* form.querySelector(`[name="${name}"]`): Null, or the singleton of the
\* element found (so that the result can be tested against Null)
Null == {}
QuerySelector(form, name) ==
  IF name \in DOMAIN form.elements THEN {form.elements[name]} ELSE Null
\* The element a non-Null querySelector result refers to
Deref(found) == CHOOSE el \in found : TRUE

\* element.checkValidity(): the declarative constraints modelled are
\* `required` (valueMissing) and the custom error set by setCustomValidity.
ElementCheckValidity(el) ==
  /\ ~(el.required /\ el.value = EmptyStr)
  /\ el.customValidity = ""

\* form.checkValidity(): every control of the form is valid
FormCheckValidity(form) ==
  \A n \in DOMAIN form.elements : ElementCheckValidity(form.elements[n])

\* ---------------------------------------------------------------- registry
\* The validators Map is a set of (name, fn) entries. fn names a function:
\* the four built-in closures, and the README's customRule example.
FnDateRange == "dateRange#builtin"
FnPhone == "phone#builtin"
FnMatchField == "matchField#builtin"
FnConditionalRequired == "conditionalRequired#builtin"
FnCustomRule == "customRule#readme"

\* Map.prototype.set(name, fn) as a plausible slip: the old entry stays
MapSetKeepOld(map, name, fn) == map \cup {[name |-> name, fn |-> fn]}
\* Map.prototype.set(name, fn)
MapSet(map, name, fn) ==
  {e \in map : e.name # name} \cup {[name |-> name, fn |-> fn]}
\* Map.prototype.get(name)
MapGet(map, name) ==
  IF \E e \in map : e.name = name
  THEN (CHOOSE e \in map : e.name = name).fn
  ELSE Undefined

\* registerValidator(name, fn)
registerValidator(map, name, fn) == MapSet(map, name, fn)
\* getValidator(name)
getValidator(map, name) == MapGet(map, name)

\* The registry once the module has been loaded: four registerValidator calls
BuiltinRegistry ==
  registerValidator(
    registerValidator(
      registerValidator(
        registerValidator({}, "dateRange", FnDateRange),
        "phone", FnPhone),
      "matchField", FnMatchField),
    "conditionalRequired", FnConditionalRequired)

\* ------------------------------------------------------ validator configs
\* A config entry is a bare name (isString) or an object {name, ...options}.
NoEquals == [kind |-> "undefined", str |-> EmptyStr, bool |-> FALSE]
EmptyOptions ==
  [isString |-> FALSE, name |-> Undefined, startField |-> Undefined,
   endField |-> Undefined, field |-> Undefined, equals |-> NoEquals,
   message |-> Undefined]
StringConfig(n) == [EmptyOptions EXCEPT !.isString = TRUE, !.name = n]
\* typeof config === 'string' ? config : config.name
ConfigName(config) == config.name
\* typeof config === 'string' ? {} : config
ConfigOptions(config) == IF config.isString THEN EmptyOptions ELSE config

Result(valid, message) == [valid |-> valid, message |-> message]

\* ---------------------------------------------------- built-in validators
DateRangeMsg == "End date must be after start date"
DateFormatMsg == "Invalid date format"
PhoneMsg == "Phone number must be 10-15 digits"
RequiredMsg == "This field is required"
CustomRuleMsg == "Must be at least 5 characters"

\* The dateRange rule as a slip would have it: an end equal to the start is
\* accepted.
DateRangeValidatorNonStrict(value, options, form) ==
  LET startInput == QuerySelector(form, options.startField)
      endInput == QuerySelector(form, options.endField)
  IN IF startInput = Null \/ endInput = Null
     THEN Result(TRUE, "")
     ELSE LET startValue == Deref(startInput).value
              endValue == Deref(endInput).value
              startDate == NewDate(startValue)
              endDate == NewDate(endValue)
          IN IF Falsy(startValue) \/ Falsy(endValue)
             THEN Result(TRUE, "")
             ELSE IF IsNaNTime(startDate) \/ IsNaNTime(endDate)
             THEN Result(FALSE, DateFormatMsg)
             ELSE IF DateLeq(endDate, startDate) /\ endDate # startDate
             THEN Result(FALSE, OrElse(options.message, DateRangeMsg))
             ELSE Result(TRUE, "")

\* registerValidator('dateRange', (value, options, form) => ...)
DateRangeValidator(value, options, form) ==
  LET startInput == QuerySelector(form, options.startField)
      endInput == QuerySelector(form, options.endField)
  IN IF startInput = Null \/ endInput = Null
     THEN Result(TRUE, "")
     ELSE LET startValue == Deref(startInput).value
              endValue == Deref(endInput).value
              startDate == NewDate(startValue)
              endDate == NewDate(endValue)
          IN IF Falsy(startValue) \/ Falsy(endValue)
             THEN Result(TRUE, "")
             ELSE IF IsNaNTime(startDate) \/ IsNaNTime(endDate)
             THEN Result(FALSE, DateFormatMsg)
             ELSE IF DateLeq(endDate, startDate)
             THEN Result(FALSE, OrElse(options.message, DateRangeMsg))
             ELSE Result(TRUE, "")

\* The phone rule as a slip would have it: the length of the raw text is
\* tested, not the number of its digits.
PhoneValidatorRawLength(value, options, form) ==
  IF Falsy(value) THEN Result(TRUE, "")
  ELSE IF Len(value) < 10 \/ Len(value) > 15
  THEN Result(FALSE, OrElse(options.message, PhoneMsg))
  ELSE Result(TRUE, "")

PhoneMinDigits == 10
PhoneMaxDigits == 15
\* registerValidator('phone', (value, options) => ...)
PhoneValidator(value, options, form) ==
  IF Falsy(value) THEN Result(TRUE, "")
  ELSE LET digitsOnly == DigitsOnly(value)
       IN IF Len(digitsOnly) < PhoneMinDigits \/ Len(digitsOnly) > PhoneMaxDigits
          THEN Result(FALSE, OrElse(options.message, PhoneMsg))
          ELSE Result(TRUE, "")

\* registerValidator('matchField', (value, options, form) => ...)
MatchFieldValidator(value, options, form) ==
  LET targetInput == QuerySelector(form, options.field)
  IN IF targetInput = Null THEN Result(TRUE, "")
     ELSE IF value # Deref(targetInput).value
     THEN Result(FALSE, IF FalsyText(options.message)
                        THEN "Must match " \o options.field
                        ELSE options.message)
     ELSE Result(TRUE, "")

\* The conditionalRequired rule as a slip would have it: the own value is
\* tested for emptiness without trimming.
ConditionalRequiredValidatorNoTrim(value, options, form) ==
  LET targetInput == QuerySelector(form, options.field)
  IN IF targetInput = Null THEN Result(TRUE, "")
     ELSE LET target == Deref(targetInput)
              conditionMet ==
                IF target.type = "checkbox"
                THEN IF options.equals.kind = "boolean" /\ options.equals.bool
                     THEN target.checked
                     ELSE ~target.checked
                ELSE options.equals.kind = "string"
                     /\ target.value = options.equals.str
          IN IF conditionMet /\ Falsy(value)
             THEN Result(FALSE, OrElse(options.message, RequiredMsg))
             ELSE Result(TRUE, "")

\* registerValidator('conditionalRequired', (value, options, form) => ...)
ConditionalRequiredValidator(value, options, form) ==
  LET targetInput == QuerySelector(form, options.field)
  IN IF targetInput = Null THEN Result(TRUE, "")
     ELSE LET target == Deref(targetInput)
              conditionMet ==
                IF target.type = "checkbox"
                THEN IF options.equals.kind = "boolean" /\ options.equals.bool
                     THEN target.checked
                     ELSE ~target.checked
                ELSE options.equals.kind = "string"
                     /\ target.value = options.equals.str
          IN IF conditionMet /\ (value = UndefinedValue \/ Trim(value) = EmptyStr)
             THEN Result(FALSE, OrElse(options.message, RequiredMsg))
             ELSE Result(TRUE, "")

CustomRuleMinLength == 5
\* README: registerValidator('customRule', (value, options, form) => ...)
CustomRuleValidator(value, options, form) ==
  Result(Len(value) >= CustomRuleMinLength, CustomRuleMsg)

\* validator(input.value, options, form): the call of a registered function
Invoke(fn, value, options, form) ==
  CASE fn = FnDateRange -> DateRangeValidator(value, options, form)
    [] fn = FnPhone -> PhoneValidator(value, options, form)
    [] fn = FnMatchField -> MatchFieldValidator(value, options, form)
    [] fn = FnConditionalRequired -> ConditionalRequiredValidator(value, options, form)
    [] fn = FnCustomRule -> CustomRuleValidator(value, options, form)

\* applyInvalidState(input, message) as a slip would have it: the valid
\* marker is not removed before the invalid marker is added.
applyInvalidStateKeepValid(input, message) ==
  LET marked == [input EXCEPT !.classList = @ \cup {IsInvalidCls}]
  IN IF FalsyText(message) THEN marked
     ELSE [marked EXCEPT
             !.customValidity = message,
             !.feedback = IF @ = NoFeedback THEN @ ELSE message]

\* ------------------------------------------------------------------ runner
\* applyInvalidState(input, message); runValidators passes no message
\* (Undefined) for a native failure.
applyInvalidState(input, message) ==
  LET marked == [input EXCEPT
                   !.classList = (@ \ {IsValidCls}) \cup {IsInvalidCls}]
  IN IF FalsyText(message) THEN marked
     ELSE [marked EXCEPT
             !.customValidity = message,
             !.feedback = IF @ = NoFeedback THEN @ ELSE message]

\* applyValidState(input)
applyValidState(input) ==
  [input EXCEPT !.classList = (@ \ {IsInvalidCls}) \cup {IsValidCls},
                !.customValidity = ""]

\* clearValidationState(input)
clearValidationState(input) ==
  [input EXCEPT !.classList = @ \ {IsValidCls, IsInvalidCls},
                !.customValidity = ""]

\* What a call of the runner yields: its return value, the input as it leaves
\* it, and the probe log of the config indices whose validator was invoked.
RunOutcome(ret, input, calls) == [ret |-> ret, input |-> input, calls |-> calls]

\* The loop of runValidators as a slip would have it: a failure is recorded
\* but the remaining entries are still evaluated.
RECURSIVE RunLoopNoShortCircuit(_, _, _, _, _, _)
RunLoopNoShortCircuit(i, validatorConfigs, input, form, registry, calls) ==
  IF i > Len(validatorConfigs)
  THEN RunOutcome(IsInvalidCls \notin input.classList,
                  IF IsInvalidCls \in input.classList
                  THEN input ELSE applyValidState(input), calls)
  ELSE LET config == validatorConfigs[i]
           validator == MapGet(registry, ConfigName(config))
           result == Invoke(validator, input.value, ConfigOptions(config), form)
       IN IF validator = Undefined
          THEN RunLoopNoShortCircuit(i + 1, validatorConfigs, input, form,
                                     registry, calls)
          ELSE RunLoopNoShortCircuit(
                 i + 1, validatorConfigs,
                 IF result.valid THEN input
                 ELSE applyInvalidState(input, result.message),
                 form, registry, Append(calls, i))

\* The loop of runValidators as a slip would have it: an unregistered
\* validator counts as a failure.
RECURSIVE RunLoopStrict(_, _, _, _, _, _)
RunLoopStrict(i, validatorConfigs, input, form, registry, calls) ==
  IF i > Len(validatorConfigs)
  THEN RunOutcome(TRUE, applyValidState(input), calls)
  ELSE LET config == validatorConfigs[i]
           validator == MapGet(registry, ConfigName(config))
           result == Invoke(validator, input.value, ConfigOptions(config), form)
       IN IF validator = Undefined
          THEN RunOutcome(FALSE, applyInvalidState(input, Undefined), calls)
          ELSE IF ~result.valid
          THEN RunOutcome(FALSE, applyInvalidState(input, result.message),
                          Append(calls, i))
          ELSE RunLoopStrict(i + 1, validatorConfigs, input, form, registry,
                             Append(calls, i))

\* The loop of runValidators as a slip would have it: success keeps the
\* markers and message it found.
RECURSIVE RunLoopNoApplyValid(_, _, _, _, _, _)
RunLoopNoApplyValid(i, validatorConfigs, input, form, registry, calls) ==
  IF i > Len(validatorConfigs)
  THEN RunOutcome(TRUE, input, calls)
  ELSE LET config == validatorConfigs[i]
           validator == MapGet(registry, ConfigName(config))
           result == Invoke(validator, input.value, ConfigOptions(config), form)
       IN IF validator = Undefined
          THEN RunLoopNoApplyValid(i + 1, validatorConfigs, input, form,
                                   registry, calls)
          ELSE IF ~result.valid
          THEN RunOutcome(FALSE, applyInvalidState(input, result.message),
                          Append(calls, i))
          ELSE RunLoopNoApplyValid(i + 1, validatorConfigs, input, form,
                                   registry, Append(calls, i))

\* for (const config of validatorConfigs) { ... } applyValidState; return true
RECURSIVE RunLoop(_, _, _, _, _, _)
RunLoop(i, validatorConfigs, input, form, registry, calls) ==
  IF i > Len(validatorConfigs)
  THEN RunOutcome(TRUE, applyValidState(input), calls)
  ELSE LET config == validatorConfigs[i]
           validatorName == ConfigName(config)
           options == ConfigOptions(config)
           validator == MapGet(registry, validatorName)
           result == Invoke(validator, input.value, options, form)
       IN IF validator = Undefined
          THEN RunLoop(i + 1, validatorConfigs, input, form, registry, calls)
          ELSE IF ~result.valid
          THEN RunOutcome(FALSE, applyInvalidState(input, result.message),
                          Append(calls, i))
          ELSE RunLoop(i + 1, validatorConfigs, input, form, registry,
                       Append(calls, i))

\* runValidators as a slip would have it: the custom validators run even
\* though the native check failed.
runValidatorsNoNativeGate(input, validatorConfigs, form, registry) ==
  RunLoop(1, validatorConfigs, input, form, registry, <<>>)

\* runValidators(input, validatorConfigs, form)
runValidators(input, validatorConfigs, form, registry) ==
  IF ~ElementCheckValidity(input)
  THEN RunOutcome(FALSE, applyInvalidState(input, Undefined), <<>>)
  ELSE RunLoop(1, validatorConfigs, input, form, registry, <<>>)

\* ------------------------------------------------------------ orchestrator
\* What a call of the orchestrator yields: its return value, the form as it
\* leaves it, the fields the runner was invoked on (in order), and the probe
\* log of (field, config index) validator invocations.
FormOutcome(ret, form, runs, calls) ==
  [ret |-> ret, form |-> form, runs |-> runs, calls |-> calls]

TagCalls(fieldName, calls) == [k \in 1..Len(calls) |-> <<fieldName, calls[k]>>]

\* form.classList.add(cls)
FormAddClass(form, cls) == [form EXCEPT !.classList = @ \cup {cls}]

\* The field loop as a slip would have it: the form is not marked when only a
\* custom validator failed.
RECURSIVE FieldLoopNoFlag(_, _, _, _, _, _, _)
FieldLoopNoFlag(k, fieldValidators, form, registry, allValid, runs, calls) ==
  IF k > Len(fieldValidators)
  THEN FormOutcome(allValid, form, runs, calls)
  ELSE LET fieldName == fieldValidators[k].fieldName
           r == runValidators(form.elements[fieldName],
                              fieldValidators[k].validatorConfigs, form, registry)
       IN IF QuerySelector(form, fieldName) = Null
          THEN FieldLoopNoFlag(k + 1, fieldValidators, form, registry,
                               allValid, runs, calls)
          ELSE FieldLoopNoFlag(
                 k + 1, fieldValidators,
                 [form EXCEPT !.elements[fieldName] = r.input], registry,
                 allValid /\ r.ret, Append(runs, fieldName),
                 calls \o TagCalls(fieldName, r.calls))

\* for (const [fieldName, validatorConfigs] of Object.entries(fieldValidators))
\* { ... }  if (!allValid) form.classList.add('was-validated'); return allValid
RECURSIVE FieldLoop(_, _, _, _, _, _, _)
FieldLoop(k, fieldValidators, form, registry, allValid, runs, calls) ==
  IF k > Len(fieldValidators)
  THEN FormOutcome(allValid,
                   IF ~allValid THEN FormAddClass(form, WasValidatedCls) ELSE form,
                   runs, calls)
  ELSE LET fieldName == fieldValidators[k].fieldName
           validatorConfigs == fieldValidators[k].validatorConfigs
           input == QuerySelector(form, fieldName)
           r == runValidators(form.elements[fieldName], validatorConfigs,
                              form, registry)
       IN IF input = Null
          THEN FieldLoop(k + 1, fieldValidators, form, registry, allValid,
                         runs, calls)
          ELSE FieldLoop(k + 1, fieldValidators,
                         [form EXCEPT !.elements[fieldName] = r.input],
                         registry,
                         IF ~r.ret THEN FALSE ELSE allValid,
                         Append(runs, fieldName),
                         calls \o TagCalls(fieldName, r.calls))

\* validateFormWithCustom as a slip would have it: it returns as soon as the
\* native stage fails.
validateFormWithCustomEarlyReturn(form, fieldValidators, registry) ==
  IF ~FormCheckValidity(form)
  THEN FormOutcome(FALSE, FormAddClass(form, WasValidatedCls), <<>>, <<>>)
  ELSE FieldLoop(1, fieldValidators, form, registry, TRUE, <<>>, <<>>)

\* validateFormWithCustom as a slip would have it: the native stage marks the
\* form but its failure is not recorded in the result.
validateFormWithCustomForgetNative(form, fieldValidators, registry) ==
  IF ~FormCheckValidity(form)
  THEN FieldLoop(1, fieldValidators, FormAddClass(form, WasValidatedCls),
                 registry, TRUE, <<>>, <<>>)
  ELSE FieldLoop(1, fieldValidators, form, registry, TRUE, <<>>, <<>>)

\* validateFormWithCustom(form, fieldValidators): the map is the sequence of
\* its Object.entries.
validateFormWithCustom(form, fieldValidators, registry) ==
  IF ~FormCheckValidity(form)
  THEN FieldLoop(1, fieldValidators, FormAddClass(form, WasValidatedCls),
                 registry, FALSE, <<>>, <<>>)
  ELSE FieldLoop(1, fieldValidators, form, registry, TRUE, <<>>, <<>>)

\* ------------------------------------------------------------ sample input
\* The texts a user types or picks, as character sequences.
Date0000 == <<"2", "0", "3", "0", "-", "0", "1", "-", "0", "1", "T", "0", "0", ":", "0", "0">>
Date0100 == <<"2", "0", "3", "0", "-", "0", "1", "-", "0", "1", "T", "0", "1", ":", "0", "0">>
Date2359 == <<"2", "0", "2", "9", "-", "1", "2", "-", "3", "1", "T", "2", "3", ":", "5", "9">>
BadMonth == <<"2", "0", "3", "0", "-", "1", "3", "-", "0", "1", "T", "0", "0", ":", "0", "0">>
Blank == <<" ">>
NotADate == <<"n", "o", "t", "-", "a", "-", "d", "a", "t", "e">>
Phone3 == <<"1", "2", "3">>
Phone10 == <<"1", "2", "3", "-", "4", "5", "6", "-", "7", "8", "9", "0">>

StartField == "startDateTime"
EndField == "endDateTime"
PhoneField == "phone"
\* A name a field-validator map may list although the form has no such field
MissingField == "missing"
Fields == {StartField, EndField, PhoneField}

\* What a user may enter into each field
FieldValues(f) ==
  CASE f = StartField -> {EmptyStr, Date0000}
    [] f = EndField -> {EmptyStr, Date0000, Date0100}
    [] f = PhoneField -> {EmptyStr, Phone3, Phone10}

\* An element as the page's markup declares it, before any interaction
Element(type, required, feedback, picker) ==
  [value |-> EmptyStr, classList |-> {}, customValidity |-> "",
   feedback |-> feedback, type |-> type, checked |-> FALSE,
   required |-> required, picker |-> picker]

\* The request form: two required datetime inputs and an optional phone input
\* that has an .invalid-feedback sibling.
InitialForm ==
  [classList |-> {},
   elements |->
     [f \in Fields |->
        CASE f = StartField -> Element("text", TRUE, NoFeedback, TRUE)
          [] f = EndField -> Element("text", TRUE, NoFeedback, TRUE)
          [] f = PhoneField -> Element("tel", FALSE, "", FALSE)]]

\* ------------------------------------------- validation subsystem: state
VARIABLES
  validators,      \* the registry Map
  lastRegistered,  \* per name, the function of the latest registerValidator
  registrations,   \* registerValidator calls made after module load
  form,            \* the form element and its controls
  last,            \* the latest API call: its arguments, the form before it,
                   \* its return value and its probe logs
  submitButton,    \* the form's submit button
  pending,         \* payloads of the submissions awaiting the network
  requests,        \* network submissions started so far
  formConfig,      \* the form's data-form-config
  handles          \* the picker handles of the instance: live or destroyed

regVars == <<validators, lastRegistered, registrations>>
lifeVars == <<submitButton, pending, requests, formConfig, handles>>
vars == <<validators, lastRegistered, registrations, form, last, submitButton,
          pending, requests, formConfig, handles>>

SubmitLabel == "Submit"
SpinnerLabel == "<span class=spinner-border></span> Submitting..."
\* The submit button as the markup declares it
InitialButton ==
  [exists |-> TRUE, disabled |-> FALSE, innerHTML |-> SubmitLabel,
   originalText |-> Undefined]
\* form.querySelector('button[type="submit"]') of a form without one: null
NoButton == [InitialButton EXCEPT !.exists = FALSE]
\* A picker handle is live until destroy() releases it
Live == "live"
Released == "released"
\* JSON.parse(form.dataset.formConfig || '{}') of a form without options
DefaultConfig == [resetOnSuccess |-> Undefined]
\* The configurations a form may declare: resetOnSuccess absent, true or false
FormConfigs == {[resetOnSuccess |-> r] : r \in {Undefined, "true", "false"}}

NoMap == <<>>
\* No API call since the last user edit
Idle ==
  [op |-> "none", field |-> Undefined, configs |-> <<>>, map |-> NoMap,
   pre |-> InitialForm, ret |-> FALSE, fn |-> Undefined, calls |-> <<>>,
   runs |-> <<>>, check |-> Result(TRUE, ""), rule |-> Result(TRUE, ""),
   preButton |-> InitialButton, prePending |-> <<>>, preRequests |-> 0,
   via |-> Undefined, path |-> Undefined, escaped |-> FALSE,
   hooks |-> FALSE, stale |-> FALSE, preHandles |-> Live,
   entries |-> <<>>, data |-> <<>>]

\* Names and functions registerValidator is called with after module load
RegNames == {"customRule"}
RegFns == {FnCustomRule}
AllNames ==
  {"dateRange", "phone", "matchField", "conditionalRequired", "customRule", "nope"}

\* Config entries the callers use
DateRangeConfig ==
  [EmptyOptions EXCEPT !.name = "dateRange", !.startField = StartField,
                       !.endField = EndField]
\* The rules each field's configuration draws on
ConfigEntries(f) ==
  CASE f = StartField -> {}
    [] f = EndField -> {DateRangeConfig, StringConfig("customRule")}
    [] f = PhoneField -> {StringConfig("phone"), StringConfig("customRule")}
RECURSIVE SeqsUpTo(_, _)
SeqsUpTo(S, n) ==
  IF n = 0 THEN {<<>>}
  ELSE LET shorter == SeqsUpTo(S, n - 1)
       IN shorter \cup {Append(q, x) : q \in shorter, x \in S}
ConfigLists(f) == SeqsUpTo(ConfigEntries(f), MaxConfigs)

Init ==
  /\ validators = BuiltinRegistry
  /\ lastRegistered =
       [n \in AllNames |->
          CASE n = "dateRange" -> FnDateRange
            [] n = "phone" -> FnPhone
            [] n = "matchField" -> FnMatchField
            [] n = "conditionalRequired" -> FnConditionalRequired
            [] OTHER -> Undefined]
  /\ registrations = 0
  /\ form = InitialForm
  /\ last = Idle
  /\ submitButton = InitialButton
  /\ pending = <<>>
  /\ requests = 0
  /\ formConfig = DefaultConfig
  /\ handles = Live

\* ----------------------------------------- validation subsystem: actions
\* The user changes a field's value.
SetValue(f, v) ==
  /\ form.elements[f].value # v
  /\ form' = [form EXCEPT !.elements[f].value = v]
  /\ last' = Idle
  /\ UNCHANGED <<validators, lastRegistered, registrations, lifeVars>>

\* registerValidator(name, fn)
RegisterValidator(name, fn) ==
  /\ validators' = registerValidator(validators, name, fn)
  /\ lastRegistered' = [lastRegistered EXCEPT ![name] = fn]
  /\ last' = [Idle EXCEPT !.op = "registerValidator", !.field = name, !.fn = fn]
  /\ UNCHANGED <<form, lifeVars>>

\* runValidators(input, validatorConfigs, form) on the input named f
RunValidators(f, validatorConfigs) ==
  LET r == runValidators(form.elements[f], validatorConfigs, form, validators)
  IN /\ form' = [form EXCEPT !.elements[f] = r.input]
     /\ last' = [Idle EXCEPT !.op = "runValidators", !.field = f,
                               !.configs = validatorConfigs, !.pre = form,
                               !.ret = r.ret, !.calls = r.calls]
     /\ UNCHANGED <<validators, lastRegistered, registrations, lifeVars>>

\* clearValidationState(input) on the input named f
ClearValidationState(f) ==
  /\ form' = [form EXCEPT !.elements[f] = clearValidationState(@)]
  /\ last' = [Idle EXCEPT !.op = "clearValidationState", !.field = f,
                            !.pre = form]
  /\ UNCHANGED <<validators, lastRegistered, registrations, lifeVars>>

Next ==
  \/ \E f \in Fields : \E v \in FieldValues(f) : SetValue(f, v)
  \/ \E name \in RegNames, fn \in RegFns :
       RegisterValidator(name, fn) /\ UNCHANGED registrations
  \/ \E f \in Fields : \E cfgs \in ConfigLists(f) : RunValidators(f, cfgs)
  \/ \E f \in Fields : ClearValidationState(f)

Spec == Init /\ [][Next]_vars

\* ------------------------------------------------- registry: its own run
\* Names and functions the registry specification registers and looks up
RegistryNames == {"phone", "customRule", "dateRange"}
RegistryFns == {FnPhone, FnCustomRule, FnDateRange}

\* getValidator(name)
GetValidator(name) ==
  /\ last' = [Idle EXCEPT !.op = "getValidator", !.field = name,
                            !.fn = getValidator(validators, name)]
  /\ UNCHANGED <<validators, lastRegistered, registrations, form, lifeVars>>

NextRegistry ==
  \/ \E name \in RegistryNames, fn \in RegistryFns :
       /\ registrations < MaxRegistrations
       /\ registrations' = registrations + 1
       /\ RegisterValidator(name, fn)
  \/ \E name \in AllNames : GetValidator(name)

SpecRegistry == Init /\ [][NextRegistry]_vars

\* --------------------------------------------- form helpers (validation)
\* resetValidation(form)
resetValidation(f) ==
  [classList |-> f.classList \ {WasValidatedCls},
   elements |-> [n \in DOMAIN f.elements |->
                   [f.elements[n] EXCEPT !.customValidity = ""]]]

\* validateForm(form): its return value and the form as it leaves it
validateForm(f) ==
  IF ~FormCheckValidity(f)
  THEN [ret |-> FALSE, form |-> FormAddClass(f, WasValidatedCls)]
  ELSE [ret |-> TRUE, form |-> f]

\* new FormData(form).entries(): the (name, value) pairs of the controls in
\* tree order
TreeOrder == <<"appId", StartField, EndField, PhoneField>>
FormDataEntries(f) ==
  LET present == SelectSeq(TreeOrder, LAMBDA n : n \in DOMAIN f.elements)
  IN [k \in 1..Len(present) |->
        [key |-> present[k], value |-> f.elements[present[k]].value]]

\* A property of the data object: a scalar, or an array of values
Scalar(v) == [isArray |-> FALSE, items |-> <<v>>]
\* if (data[key]): the property exists and is not the empty string
Truthy(data, key) ==
  key \in DOMAIN data /\ (data[key].isArray \/ data[key].items[1] # EmptyStr)
\* getFormData(form), from the entries of its FormData
RECURSIVE getFormDataFrom(_, _)
getFormDataFrom(entries, data) ==
  IF entries = <<>> THEN data
  ELSE LET key == Head(entries).key
           value == Head(entries).value
           others == [k \in DOMAIN data \ {key} |-> data[k]]
       IN getFormDataFrom(
            Tail(entries),
            IF Truthy(data, key)
            THEN IF data[key].isArray
                 THEN (key :> [data[key] EXCEPT !.items = Append(@, value)])
                      @@ others
                 ELSE (key :> [isArray |-> TRUE,
                               items |-> <<data[key].items[1], value>>])
                      @@ others
            ELSE (key :> Scalar(value)) @@ others)
getFormData(f) == getFormDataFrom(FormDataEntries(f), <<>>)

\* The FormData entries of a form whose controls share names (checkboxes,
\* repeated text inputs), some of them left empty
EntryKeys == {"tags", "note"}
EntryValues == {EmptyStr, <<"a">>, <<"b">>}
EntryLists ==
  SeqsUpTo({[key |-> k, value |-> v] : k \in EntryKeys, v \in EntryValues},
           MaxEntries)
InitFormData ==
  /\ validators = BuiltinRegistry
  /\ lastRegistered =
       [n \in AllNames |-> getValidator(BuiltinRegistry, n)]
  /\ registrations = 0
  /\ form = InitialForm
  /\ \E entries \in EntryLists : last = [Idle EXCEPT !.entries = entries]
  /\ submitButton = InitialButton
  /\ pending = <<>>
  /\ requests = 0
  /\ formConfig = DefaultConfig
  /\ handles = Live
\* getFormData(form) on a form with these entries
GetFormData ==
  /\ last' = [last EXCEPT !.op = "getFormData",
                          !.data = getFormDataFrom(last.entries, <<>>)]
  /\ UNCHANGED <<validators, lastRegistered, registrations, form, lifeVars>>
NextFormData == GetFormData

SpecFormData == InitFormData /\ [][NextFormData]_vars

\* Array.prototype.toString: the items joined by commas
RECURSIVE JoinItems(_)
JoinItems(items) ==
  IF items = <<>> THEN EmptyStr
  ELSE IF Len(items) = 1 THEN Head(items)
  ELSE Head(items) \o <<",">> \o JoinItems(Tail(items))
\* formData.key as the text the date functions see (an array is converted to
\* its string by new Date; a missing property is undefined)
Prop(data, key) ==
  IF key \notin DOMAIN data THEN UndefinedValue
  ELSE IF data[key].isArray THEN JoinItems(data[key].items)
  ELSE data[key].items[1]

BothRequiredMsg == "Both start and end date/time are required."
DateTimeFormatMsg == "Invalid date/time format."
EndAfterStartMsg == "End date/time must be after start date/time."

\* validateDateTimeRange as a slip would have it: an end equal to the start
\* is accepted.
validateDateTimeRangeNonStrict(startDateTime, endDateTime) ==
  LET start == NewDate(startDateTime)
      end == NewDate(endDateTime)
  IN IF Falsy(startDateTime) \/ Falsy(endDateTime)
     THEN Result(FALSE, BothRequiredMsg)
     ELSE IF IsNaNTime(start) \/ IsNaNTime(end)
     THEN Result(FALSE, DateTimeFormatMsg)
     ELSE IF DateLeq(end, start) /\ end # start
     THEN Result(FALSE, EndAfterStartMsg)
     ELSE Result(TRUE, "")

\* validateDateTimeRange(startDateTime, endDateTime)
validateDateTimeRange(startDateTime, endDateTime) ==
  LET start == NewDate(startDateTime)
      end == NewDate(endDateTime)
  IN IF Falsy(startDateTime) \/ Falsy(endDateTime)
     THEN Result(FALSE, BothRequiredMsg)
     ELSE IF IsNaNTime(start) \/ IsNaNTime(end)
     THEN Result(FALSE, DateTimeFormatMsg)
     ELSE IF DateLeq(end, start)
     THEN Result(FALSE, EndAfterStartMsg)
     ELSE Result(TRUE, "")

\* ------------------------------------------- orchestrator: maps and calls
\* A field-validator map is the sequence of its Object.entries. The callers'
\* maps list, in this order, any of the names below, each with one of the
\* config lists of its field.
MapOrder == <<StartField, MissingField, EndField, PhoneField>>
MapConfigLists(n) ==
  CASE n = StartField -> {<<>>}
    [] n = MissingField -> {<<StringConfig("phone")>>}
    [] n = EndField -> {<<DateRangeConfig>>}
    [] n = PhoneField -> {<<StringConfig("customRule"), StringConfig("phone")>>}
MapEntry(n, configs) == [fieldName |-> n, validatorConfigs |-> configs]
RECURSIVE MapsFrom(_)
MapsFrom(k) ==
  IF k > Len(MapOrder) THEN {<<>>}
  ELSE LET rest == MapsFrom(k + 1)
       IN rest \cup {<<MapEntry(MapOrder[k], c)>> \o r :
                       c \in MapConfigLists(MapOrder[k]), r \in rest}
FieldValidatorMaps == MapsFrom(1)

\* validateFormWithCustom(form, fieldValidators)
ValidateFormWithCustom(fieldValidators) ==
  LET r == validateFormWithCustom(form, fieldValidators, validators)
  IN /\ form' = r.form
     /\ last' = [Idle EXCEPT !.op = "validateFormWithCustom",
                               !.map = fieldValidators, !.pre = form,
                               !.ret = r.ret, !.calls = r.calls,
                               !.runs = r.runs]
     /\ UNCHANGED <<validators, lastRegistered, registrations, lifeVars>>

\* resetValidation(form)
ResetValidation ==
  /\ form' = resetValidation(form)
  /\ last' = [Idle EXCEPT !.op = "resetValidation", !.pre = form]
  /\ UNCHANGED <<validators, lastRegistered, registrations, lifeVars>>

NextOrchestrator ==
  \/ \E f \in Fields : \E v \in FieldValues(f) : SetValue(f, v)
  \/ \E fieldValidators \in FieldValidatorMaps :
       ValidateFormWithCustom(fieldValidators)
  \/ ResetValidation

SpecOrchestrator == Init /\ [][NextOrchestrator]_vars

\* ------------------------------------- the two date-range checks compared
\* Start/end texts: empty, blank, malformed, out of range, and parseable
DateSamples ==
  {EmptyStr, Blank, NotADate, BadMonth, Date2359, Date0000, Date0100}
\* The dateRange entry with and without a message override
DateRangeConfigs ==
  {DateRangeConfig, [DateRangeConfig EXCEPT !.message = "Pick a later end"]}

\* A form whose start and end inputs hold any two of the sample texts
InitDateRange ==
  /\ validators = BuiltinRegistry
  /\ lastRegistered =
       [n \in AllNames |-> getValidator(BuiltinRegistry, n)]
  /\ registrations = 0
  /\ \E sv \in DateSamples, ev \in DateSamples :
       form = [InitialForm EXCEPT !.elements[StartField].value = sv,
                                  !.elements[EndField].value = ev]
  /\ last = Idle
  /\ submitButton = InitialButton
  /\ pending = <<>>
  /\ requests = 0
  /\ formConfig = DefaultConfig
  /\ handles = Live

\* The submit handler's check (getFormData, then validateDateTimeRange) and the
\* registry's dateRange rule, both applied to the form's start/end pair
ApplyDateChecks(config) ==
  LET formData == getFormData(form)
  IN /\ last' = [Idle EXCEPT
                   !.op = "dateChecks", !.field = EndField,
                   !.configs = <<config>>, !.pre = form,
                   !.check = validateDateTimeRange(Prop(formData, StartField),
                                                   Prop(formData, EndField)),
                   !.rule = Invoke(getValidator(validators, ConfigName(config)),
                                   form.elements[EndField].value,
                                   ConfigOptions(config), form)]
     /\ UNCHANGED <<validators, lastRegistered, registrations, form, lifeVars>>

NextDateRange == \E config \in DateRangeConfigs : ApplyDateChecks(config)

SpecDateRange == InitDateRange /\ [][NextDateRange]_vars

\* -------------------------------------------------- the built-in rules
\* Phone texts: too short, formatted, and 15 and 16 digits long
PhoneShort == <<"1", "2", "3", "4", "5">>
PhoneSpaced == <<"+", "1", " ", "(", "1", "2", "3", ")", " ", "4", "5", "6", "-", "7", "8", "9", "0", " ", "1", "2", "3">>
Phone15 == <<"1", "2", "3", "4", "5", "6", "7", "8", "9", "0", "1", "2", "3", "4", "5">>
Phone16 == <<"1", "2", "3", "4", "5", "6", "7", "8", "9", "0", "1", "2", "3", "4", "5", "6">>
PhoneSamples ==
  {EmptyStr, Blank, Phone3, PhoneShort, Phone10, PhoneSpaced, Phone15, Phone16}

\* A form with the fields the built-in rules look at: the date pair, a phone
\* input, a checkbox and a select that conditions refer to, and a text input
\* that is conditionally required.
AgreeField == "agree"
ContactField == "contact"
DetailsField == "details"
RulesFields == Fields \cup {AgreeField, ContactField, DetailsField}
RulesForm ==
  [classList |-> {},
   elements |->
     [f \in RulesFields |->
        CASE f \in Fields -> InitialForm.elements[f]
          [] f = AgreeField -> Element("checkbox", FALSE, NoFeedback, FALSE)
          [] f = ContactField -> Element("select-one", FALSE, NoFeedback, FALSE)
          [] f = DetailsField -> Element("text", FALSE, NoFeedback, FALSE)]]
ByEmail == <<"e", "m", "a", "i", "l">>
ByPost == <<"p", "o", "s", "t">>
ContactValues == {EmptyStr, ByEmail, ByPost}
DetailsValues == {EmptyStr, Blank, <<" ", "o", "k", " ">>, <<"o", "k">>}

\* options.equals: a boolean, a string, or not given
BoolEquals(b) == [kind |-> "boolean", str |-> EmptyStr, bool |-> b]
StrEquals(t) == [kind |-> "string", str |-> t, bool |-> FALSE]

\* The entries the rules are configured with
DateRuleConfigs ==
  DateRangeConfigs \cup
    {[DateRangeConfig EXCEPT !.startField = MissingField],
     [DateRangeConfig EXCEPT !.endField = MissingField]}
PhoneRuleConfigs ==
  {StringConfig("phone"),
   [EmptyOptions EXCEPT !.name = "phone", !.message = "Enter a phone number"]}
ConditionalConfigs ==
  {[EmptyOptions EXCEPT !.name = "conditionalRequired", !.field = t,
                        !.equals = e, !.message = msg] :
     t \in {AgreeField, ContactField, MissingField},
     e \in {BoolEquals(TRUE), BoolEquals(FALSE), StrEquals(ByEmail),
            StrEquals(EmptyStr), NoEquals},
     msg \in {Undefined, "Tell us more"}}

\* A form holding any sample date pair, or any sample phone text, or any
\* sample of a condition's target and of the field it guards
InitRules ==
  /\ validators = BuiltinRegistry
  /\ lastRegistered =
       [n \in AllNames |-> getValidator(BuiltinRegistry, n)]
  /\ registrations = 0
  /\ \/ \E sv \in DateSamples, ev \in DateSamples :
          form = [RulesForm EXCEPT !.elements[StartField].value = sv,
                                   !.elements[EndField].value = ev]
     \/ \E pv \in PhoneSamples :
          form = [RulesForm EXCEPT !.elements[PhoneField].value = pv]
     \/ \E on \in BOOLEAN, cv \in ContactValues, dv \in DetailsValues :
          form = [RulesForm EXCEPT !.elements[AgreeField].checked = on,
                                   !.elements[ContactField].value = cv,
                                   !.elements[DetailsField].value = dv]
  /\ last = Idle
  /\ submitButton = InitialButton
  /\ pending = <<>>
  /\ requests = 0
  /\ formConfig = DefaultConfig
  /\ handles = Live

\* validator(input.value, options, form) of runValidators, for the input
\* named f and one config entry
ApplyRule(f, config) ==
  /\ last' = [Idle EXCEPT
                !.op = "rule", !.field = f, !.configs = <<config>>,
                !.pre = form,
                !.rule = Invoke(getValidator(validators, ConfigName(config)),
                                form.elements[f].value,
                                ConfigOptions(config), form)]
  /\ UNCHANGED <<validators, lastRegistered, registrations, form, lifeVars>>

NextRules ==
  \/ \E config \in DateRuleConfigs : ApplyRule(EndField, config)
  \/ \E config \in PhoneRuleConfigs : ApplyRule(PhoneField, config)
  \/ \E config \in ConditionalConfigs : ApplyRule(DetailsField, config)

SpecRules == InitRules /\ [][NextRules]_vars

\* ---------------------------------------------------------- form lifecycle
\* The request form bound by initializeForm: a required application select
\* and two required datetime inputs enhanced by the picker.
AppField == "appId"
RequestFields == {AppField, StartField, EndField}
RequestForm ==
  [classList |-> {},
   elements |->
     [f \in RequestFields |->
        CASE f = AppField -> Element("select-one", TRUE, NoFeedback, FALSE)
          [] f = StartField -> Element("text", TRUE, NoFeedback, TRUE)
          [] f = EndField -> Element("text", TRUE, NoFeedback, TRUE)]]
AppSeven == <<"7">>
RequestValues(f) ==
  CASE f = AppField -> {EmptyStr, AppSeven}
    [] f = StartField -> {EmptyStr, Date0000, Date0100}
    [] f = EndField -> {EmptyStr, Date0000, Date0100}

\* What the picker library does when clear() is called on a destroyed handle
\* is not fixed by this repository: the call throws, or it still fires the
\* onChange hook.
StaleThrows == "throws"
StaleFires == "fires"
StaleClears == {StaleThrows, StaleFires}

\* A page state the handlers work on: the form, its submit button and the
\* picker handles, with what the running handler has done so far: whether an
\* exception is propagating (threw), whether an onChange hook fired (hooks),
\* whether a destroyed handle was operated on (stale), and which outcome path
\* of a submission ran (path).
DomWith(f, button, pickers, staleClear) ==
  [form |-> f, button |-> button, handles |-> pickers,
   staleClear |-> staleClear, threw |-> FALSE, hooks |-> FALSE,
   stale |-> FALSE, path |-> Undefined]
Dom(f, button) == DomWith(f, button, Live, StaleThrows)

\* The emptiness test of validateFormFields for one required input
IsBlank(input) ==
  IF input.type = "select-one"
  THEN Falsy(input.value)
  ELSE Falsy(input.value) \/ Trim(input.value) = EmptyStr
\* The body of requiredInputs.forEach in validateFormFields
SweepInput(input) ==
  IF ~input.required THEN input
  ELSE IF IsBlank(input)
  THEN [input EXCEPT
          !.classList = (@ \ {IsValidCls}) \cup
                        (IF TouchedCls \in @ THEN {IsInvalidCls} ELSE {})]
  ELSE [input EXCEPT !.classList = (@ \ {IsInvalidCls}) \cup {IsValidCls}]
\* allValid of validateFormFields: every required field is non-empty
AllRequiredFilled(f) ==
  \A n \in DOMAIN f.elements :
    f.elements[n].required => ~IsBlank(f.elements[n])
\* validateFormFields() as a slip would have it: the per-field style is
\* toggled only on touched fields.
validateFormFieldsTouchedOnly(d) ==
  [d EXCEPT
     !.form.elements =
       [n \in DOMAIN @ |->
          IF TouchedCls \in @[n].classList THEN SweepInput(@[n]) ELSE @[n]],
     !.button.disabled =
       IF d.button.exists THEN ~AllRequiredFilled(d.form) ELSE @]
\* validateFormFields()
validateFormFields(d) ==
  [d EXCEPT
     !.form.elements = [n \in DOMAIN @ |-> SweepInput(@[n])],
     !.button.disabled =
       IF d.button.exists THEN ~AllRequiredFilled(d.form) ELSE @]

\* The 'input' / 'change' / 'blur' listener of a required input
OnInput(d, n) ==
  validateFormFields(
    [d EXCEPT !.form.elements[n].classList = @ \cup {TouchedCls}])

\* The picker's onChange hook, followed by the change and input events the
\* picker dispatches on its input
PickerOnChange(d, n) ==
  OnInput(
    validateFormFields(
      [d EXCEPT !.form.elements[n].customValidity = "",
                !.form.elements[n].classList = @ \cup {TouchedCls},
                !.hooks = TRUE]),
    n)

\* The inputs that carry a picker, in tree order (flatpickrInstances)
PickerInputs(f) ==
  SelectSeq(TreeOrder,
            LAMBDA n : n \in DOMAIN f.elements /\ f.elements[n].picker)
\* fp.clear(): a live handle empties its input and fires onChange; on a
\* destroyed handle the call throws or still fires the hook
FpClear(d, n) ==
  IF d.handles = Live
  THEN PickerOnChange([d EXCEPT !.form.elements[n].value = EmptyStr], n)
  ELSE IF d.staleClear = StaleThrows
  THEN [d EXCEPT !.stale = TRUE, !.threw = TRUE]
  ELSE PickerOnChange([d EXCEPT !.form.elements[n].value = EmptyStr,
                                !.stale = TRUE], n)
\* flatpickrInstances.forEach(fp => fp.clear())
RECURSIVE ClearPickers(_, _)
ClearPickers(d, names) ==
  IF names = <<>> \/ d.threw THEN d
  ELSE ClearPickers(FpClear(d, Head(names)), Tail(names))

\* Every input loses its valid, invalid and touched markers
RemoveMarkers(f) ==
  [f EXCEPT !.elements = [n \in DOMAIN @ |->
     [@[n] EXCEPT !.classList = @ \ {IsValidCls, IsInvalidCls, TouchedCls}]]]
\* The 'reset' listener of the form
OnReset(d) ==
  LET cleared == ClearPickers([d EXCEPT !.form = resetValidation(@)],
                              PickerInputs(d.form))
  IN IF cleared.threw THEN cleared
     ELSE validateFormFields([cleared EXCEPT !.form = RemoveMarkers(@)])
\* form.reset(): the reset event is dispatched, then every control takes its
\* default value. An exception of the listener is reported by the browser
\* and does not reach the caller of reset().
FormReset(d) ==
  [OnReset(d) EXCEPT
     !.form.elements = [n \in DOMAIN @ |-> [@[n] EXCEPT !.value = EmptyStr]],
     !.threw = FALSE]

\* setButtonLoading(button, loading), for a button that exists
setButtonLoading(button, loading) ==
  IF loading
  THEN [button EXCEPT !.disabled = TRUE, !.innerHTML = SpinnerLabel,
                      !.originalText = button.innerHTML]
  ELSE [button EXCEPT !.disabled = FALSE,
                      !.innerHTML = OrElse(button.originalText, @)]

\* formatDateTimeForAPI(dateTimeString): null, or the ISO text of the instant
formatDateTimeForAPI(dateTimeString) ==
  IF Falsy(dateTimeString) \/ IsNaNTime(NewDate(dateTimeString))
  THEN [null |-> TRUE, instant |-> 0]
  ELSE [null |-> FALSE, instant |-> NewDate(dateTimeString).time]

\* populateForm(form, data) for text-like and select controls: each named
\* control that exists takes the value; no event is dispatched
populateForm(f, data) ==
  [f EXCEPT !.elements =
     [n \in DOMAIN @ |->
        IF n \in DOMAIN data THEN [@[n] EXCEPT !.value = data[n]] ELSE @[n]]]
\* Records an edit scenario populates the form with
PopulateData ==
  {(AppField :> AppSeven),
   (AppField :> AppSeven) @@ (StartField :> Date0000) @@ (EndField :> Date0100)}

\* What a callback named in the configuration does when invoked
NoCallback == "none"
Returns == "returns"
Raises == "raises"
Callbacks == {NoCallback, Returns, Raises}

\* The finally block as a slip would have it: the button is restored only
\* on the success path.
SubmitFinallySuccessOnly(d) ==
  IF d.path = "error" THEN d
  ELSE IF d.button.exists
  THEN [d EXCEPT !.button = setButtonLoading(@, FALSE)]
  ELSE [d EXCEPT !.threw = TRUE]
\* The finally block of the submit listener; setButtonLoading dereferences
\* the button, so without one it throws
SubmitFinally(d) ==
  IF d.button.exists
  THEN [d EXCEPT !.button = setButtonLoading(@, FALSE)]
  ELSE [d EXCEPT !.threw = TRUE]
\* The catch block of the submit listener, then its finally block
SubmitCatch(d, onError) ==
  SubmitFinally([d EXCEPT !.path = "error", !.threw = (onError = Raises)])

\* What the synchronous part of the submit listener yields: the page as it
\* leaves it, whether submitFormData was called, and with which payload
SubmitOutcome(d, sent, payload) == [dom |-> d, sent |-> sent, payload |-> payload]
NoPayload ==
  [formData |-> <<>>, startDateTime |-> formatDateTimeForAPI(EmptyStr),
   endDateTime |-> formatDateTimeForAPI(EmptyStr)]
\* submissionData
SubmissionData(formData) ==
  [formData |-> formData,
   startDateTime |-> formatDateTimeForAPI(Prop(formData, StartField)),
   endDateTime |-> formatDateTimeForAPI(Prop(formData, EndField))]
\* The date-range failure branch: endInput.setCustomValidity dereferences the
\* result of querySelector, so without an end field it throws before the
\* form is marked
RejectRange(d, message) ==
  IF QuerySelector(d.form, EndField) = Null
  THEN [d EXCEPT !.threw = TRUE]
  ELSE [d EXCEPT !.form = FormAddClass(
                   [@ EXCEPT !.elements[EndField].customValidity = message],
                   WasValidatedCls)]
\* The try block up to the await: setButtonLoading dereferences the button,
\* so without one it throws into the catch block before submitFormData
StartSubmit(d, formData, onError) ==
  IF d.button.exists
  THEN SubmitOutcome([d EXCEPT !.button = setButtonLoading(@, TRUE)], TRUE,
                     SubmissionData(formData))
  ELSE SubmitOutcome(SubmitCatch(d, onError), FALSE, NoPayload)

\* The submit listener as a slip would have it: the date-range failure is
\* reported but the handler goes on to submit.
OnSubmitNoRangeGate(d, onError) ==
  LET native == validateForm(d.form)
      formData == getFormData(d.form)
      dateValidation == validateDateTimeRange(Prop(formData, StartField),
                                              Prop(formData, EndField))
  IN IF ~native.ret
     THEN SubmitOutcome([d EXCEPT !.form = native.form], FALSE, NoPayload)
     ELSE IF ~dateValidation.valid
     THEN StartSubmit(RejectRange(d, dateValidation.message), formData, onError)
     ELSE StartSubmit(d, formData, onError)

\* The submit listener as a slip would have it: the date-range failure marks
\* the form but attaches no message to the end field.
OnSubmitNoMessage(d, onError) ==
  LET native == validateForm(d.form)
      formData == getFormData(d.form)
      dateValidation == validateDateTimeRange(Prop(formData, StartField),
                                              Prop(formData, EndField))
  IN IF ~native.ret
     THEN SubmitOutcome([d EXCEPT !.form = native.form], FALSE, NoPayload)
     ELSE IF ~dateValidation.valid
     THEN SubmitOutcome([d EXCEPT !.form = FormAddClass(@, WasValidatedCls)],
                        FALSE, NoPayload)
     ELSE StartSubmit(d, formData, onError)

\* form.addEventListener('submit', async (e) => ...) up to its await
OnSubmit(d, onError) ==
  LET native == validateForm(d.form)
      formData == getFormData(d.form)
      dateValidation == validateDateTimeRange(Prop(formData, StartField),
                                              Prop(formData, EndField))
  IN IF ~native.ret
     THEN SubmitOutcome([d EXCEPT !.form = native.form], FALSE, NoPayload)
     ELSE IF ~dateValidation.valid
     THEN SubmitOutcome(RejectRange(d, dateValidation.message), FALSE, NoPayload)
     ELSE StartSubmit(d, formData, onError)

\* config.resetOnSuccess !== false
ResetConfigured(cfg) == cfg.resetOnSuccess # "false"
\* The reset of the success path: form.reset(), resetValidation, and clear()
\* on every picker handle
ResetOnSuccess(d) ==
  LET r == FormReset(d)
  IN ClearPickers([r EXCEPT !.form = resetValidation(@)], PickerInputs(r.form))

\* The submit listener after its await, when submitFormData resolved: the
\* success callback, the configured reset, then the finally block; an
\* exception of either lands in the catch block
OnSubmitResolved(d, cfg, onSuccess, onError) ==
  IF onSuccess = Raises
  THEN SubmitCatch(d, onError)
  ELSE IF ResetConfigured(cfg)
  THEN LET reset == ResetOnSuccess(d)
       IN IF reset.threw
          THEN SubmitCatch(reset, onError)
          ELSE SubmitFinally([reset EXCEPT !.path = "success"])
  ELSE SubmitFinally([d EXCEPT !.path = "success"])
\* The submit listener after its await, when submitFormData rejected
OnSubmitRejected(d, onError) == SubmitCatch(d, onError)

\* ------------------------------------------------- form lifecycle: actions
\* The list without its entry i
RemoveAt(list, i) ==
  SubSeq(list, 1, i - 1) \o SubSeq(list, i + 1, Len(list))

\* initializeForm(formId) has run on the form with this markup: listeners are
\* bound and the initial validateFormFields() has set the button.
InitFormWith(markup, button) ==
  LET bound == validateFormFields(Dom(markup, button))
  IN /\ validators = BuiltinRegistry
     /\ lastRegistered =
          [n \in AllNames |-> getValidator(BuiltinRegistry, n)]
     /\ registrations = 0
     /\ form = bound.form
     /\ last = Idle
     /\ submitButton = bound.button
     /\ pending = <<>>
     /\ requests = 0
     /\ formConfig \in FormConfigs
     /\ handles = Live
InitForm == InitFormWith(RequestForm, InitialButton)

\* The page as a handler finds it
Here(staleClear) == DomWith(form, submitButton, handles, staleClear)
\* A handler leaves the page as d; the event and what the handler did are
\* kept for observation
Handled(op, d, ret) ==
  /\ form' = d.form
  /\ submitButton' = d.button
  /\ last' = [Idle EXCEPT !.op = op, !.pre = form, !.preButton = submitButton,
                          !.prePending = pending, !.preRequests = requests,
                          !.preHandles = handles, !.escaped = d.threw,
                          !.hooks = d.hooks, !.stale = d.stale,
                          !.path = d.path, !.ret = ret]

\* The user picks an option of the select
SelectOption(n, v) ==
  /\ ~form.elements[n].picker
  /\ form.elements[n].value # v
  /\ Handled("change",
             OnInput([Here(StaleThrows) EXCEPT !.form.elements[n].value = v], n),
             FALSE)
  /\ UNCHANGED <<regVars, pending, requests, formConfig, handles>>

\* The user picks, or clears, a date in a live picker
PickDate(n, v) ==
  /\ handles = Live
  /\ form.elements[n].picker
  /\ form.elements[n].value # v
  /\ Handled("pick",
             PickerOnChange(
               [Here(StaleThrows) EXCEPT !.form.elements[n].value = v], n),
             FALSE)
  /\ UNCHANGED <<regVars, pending, requests, formConfig, handles>>

\* A required input loses focus
Blur(n) ==
  /\ form.elements[n].required
  /\ Handled("blur", OnInput(Here(StaleThrows), n), FALSE)
  /\ UNCHANGED <<regVars, pending, requests, formConfig, handles>>

\* How a submit event is raised: a click on the submit button (or Enter),
\* which an absent or disabled button does not allow, or instance.submit()
ByButton == "button"
ByInstance == "requestSubmit"
SubmitWays == {ByButton, ByInstance}

\* A submit event reaches the listener (the markup decides whether it is
\* dispatched while controls are invalid, so it may arrive with any values).
\* The listener runs up to its await.
SubmitEvent(via, onError) ==
  /\ requests < MaxRequests
  /\ via = ByButton => submitButton.exists /\ ~submitButton.disabled
  /\ LET out == OnSubmit(Here(StaleThrows), onError)
     IN /\ Handled("submit", out.dom, out.sent)
        /\ pending' = IF out.sent THEN Append(pending, out.payload) ELSE pending
        /\ requests' = IF out.sent THEN requests + 1 ELSE requests
  /\ UNCHANGED <<regVars, formConfig, handles>>

\* submitFormData resolves for the i-th pending submission
NetworkResolved(i, onSuccess, onError, staleClear) ==
  /\ i \in DOMAIN pending
  /\ Handled("resolved",
             OnSubmitResolved(Here(staleClear), formConfig, onSuccess, onError),
             FALSE)
  /\ pending' = RemoveAt(pending, i)
  /\ UNCHANGED <<regVars, requests, formConfig, handles>>

\* submitFormData rejects for the i-th pending submission
NetworkRejected(i, onError) ==
  /\ i \in DOMAIN pending
  /\ Handled("rejected", OnSubmitRejected(Here(StaleThrows), onError), FALSE)
  /\ pending' = RemoveAt(pending, i)
  /\ UNCHANGED <<regVars, requests, formConfig, handles>>

\* instance.reset(), or a reset button
ResetEvent(staleClear) ==
  /\ Handled("reset", FormReset(Here(staleClear)), FALSE)
  /\ UNCHANGED <<regVars, pending, requests, formConfig, handles>>

\* instance.populate(data)
Populate(data) ==
  /\ populateForm(form, data) # form
  /\ Handled("populate", [Here(StaleThrows) EXCEPT !.form = populateForm(@, data)],
             FALSE)
  /\ UNCHANGED <<regVars, pending, requests, formConfig, handles>>

\* The pending submission settles one way or the other
Settle ==
  \E i \in 1..MaxRequests :
    \/ \E onSuccess \in Callbacks, onError \in Callbacks,
          staleClear \in StaleClears :
         NetworkResolved(i, onSuccess, onError, staleClear)
    \/ \E onError \in Callbacks : NetworkRejected(i, onError)

NextForm ==
  \/ \E v \in RequestValues(AppField) : SelectOption(AppField, v)
  \/ \E n \in {StartField, EndField} : \E v \in RequestValues(n) : PickDate(n, v)
  \/ \E n \in DOMAIN form.elements : Blur(n)
  \/ \E via \in SubmitWays, onError \in Callbacks : SubmitEvent(via, onError)
  \/ Settle
  \/ \E staleClear \in StaleClears : ResetEvent(staleClear)

SpecForm == InitForm /\ [][NextForm]_vars

\* The listeners that sweep, with instance.populate and instance.reset, on a
\* form that is not submitted
NextSweep ==
  \/ \E v \in RequestValues(AppField) : SelectOption(AppField, v)
  \/ \E n \in {StartField, EndField} : \E v \in RequestValues(n) : PickDate(n, v)
  \/ \E n \in DOMAIN form.elements : Blur(n)
  \/ \E staleClear \in StaleClears : ResetEvent(staleClear)
  \/ \E data \in PopulateData : Populate(data)

SpecSweep == InitForm /\ [][NextSweep]_vars

\* The runner, the clears, the sweeping listeners and reset on one form
NextMarkers ==
  \/ \E v \in RequestValues(AppField) : SelectOption(AppField, v)
  \/ \E n \in {StartField, EndField} : \E v \in RequestValues(n) : PickDate(n, v)
  \/ \E n \in DOMAIN form.elements : Blur(n)
  \/ \E staleClear \in StaleClears : ResetEvent(staleClear)
  \/ \E cfgs \in ConfigLists(EndField) : RunValidators(EndField, cfgs)
  \/ \E f \in RequestFields : ClearValidationState(f)
  \/ ResetValidation

SpecMarkers == InitForm /\ [][NextMarkers]_vars

\* What the user fills the fields with
FillValues ==
  (AppField :> AppSeven) @@ (StartField :> Date0000) @@ (EndField :> Date0100)
\* The user fills the named fields one after the other: a date is picked in
\* a picker, an option is chosen in the select
RECURSIVE FillAll(_, _)
FillAll(d, names) ==
  IF names = <<>> THEN d
  ELSE LET n == Head(names)
           typed == [d EXCEPT !.form.elements[n].value = FillValues[n]]
       IN FillAll(IF d.form.elements[n].picker
                  THEN PickerOnChange(typed, n)
                  ELSE OnInput(typed, n),
                  Tail(names))
\* A form after initializeForm and after the user has filled every field
Filled(markup, button) ==
  FillAll(validateFormFields(Dom(markup, button)),
          SelectSeq(TreeOrder, LAMBDA n : n \in DOMAIN markup.elements))
\* The request form after the user has filled every field
FilledForm == Filled(RequestForm, InitialButton)
InitFilledWith(d) ==
  /\ validators = BuiltinRegistry
  /\ lastRegistered = [n \in AllNames |-> getValidator(BuiltinRegistry, n)]
  /\ registrations = 0
  /\ form = d.form
  /\ last = Idle
  /\ submitButton = d.button
  /\ pending = <<>>
  /\ requests = 0
  /\ formConfig \in FormConfigs
  /\ handles = Live
InitFilled == InitFilledWith(FilledForm)

\* Submissions of the filled form and the events that arrive while they are
\* awaited
NextSubmitting ==
  \/ \E v \in RequestValues(AppField) : SelectOption(AppField, v)
  \/ \E n \in DOMAIN form.elements : Blur(n)
  \/ \E via \in SubmitWays, onError \in Callbacks : SubmitEvent(via, onError)
  \/ Settle
  \/ \E staleClear \in StaleClears : ResetEvent(staleClear)

\* A call the server never answers is ended by the network layer: fetch
\* rejects, and the listener's continuation runs on the failure path
TimedOut ==
  \E i \in 1..MaxRequests : \E onError \in Callbacks : NetworkRejected(i, onError)
\* The network collaborator settles every call: no promise of submitFormData
\* stays pending forever
SpecFormLive == InitFilled /\ [][NextSubmitting]_vars /\ WF_vars(TimedOut)

\* instance.destroy(): fp.destroy() on every handle. The handles stay in
\* flatpickrInstances; the inputs keep their values and their listeners.
Destroy ==
  /\ handles = Live
  /\ handles' = Released
  /\ Handled("destroy", Here(StaleThrows), FALSE)
  /\ UNCHANGED <<regVars, pending, requests, formConfig>>

\* After destroy the date inputs are plain inputs again: the user types a
\* value and the input listener runs
TypeDate(n, v) ==
  /\ handles = Released
  /\ form.elements[n].picker
  /\ form.elements[n].value # v
  /\ Handled("input",
             OnInput([Here(StaleThrows) EXCEPT !.form.elements[n].value = v], n),
             FALSE)
  /\ UNCHANGED <<regVars, pending, requests, formConfig, handles>>

\* The life of a filled form up to and after destroy
NextDestroy ==
  \/ NextSubmitting
  \/ Destroy
  \/ \E n \in {StartField, EndField} : \E v \in RequestValues(n) : TypeDate(n, v)

SpecDestroy == InitFilled /\ [][NextDestroy]_vars

\* The request form without its end-datetime field
RequestFormNoEnd ==
  [RequestForm EXCEPT
     !.elements = [n \in RequestFields \ {EndField} |-> @[n]]]
\* Markup with or without the end field, with or without a submit button
InitMissing ==
  \E markup \in {RequestForm, RequestFormNoEnd} :
    \E button \in {InitialButton, NoButton} :
      InitFilledWith(Filled(markup, button))

SpecMissing == InitMissing /\ [][NextSubmitting]_vars

\* ------------------------------------------------- runner: what was called
\* The latest call was runValidators
RunnerCalled == last.op = "runValidators"
\* The input as runValidators found it, and as it left it
PreInput == last.pre.elements[last.field]
PostInput == form.elements[last.field]
\* Entry i of the list names a registered validator
Registered(configs, i) == MapGet(validators, ConfigName(configs[i])) # Undefined
\* What entry i's validator returns for the input's value
EntryResult(configs, i) ==
  Invoke(MapGet(validators, ConfigName(configs[i])), PreInput.value,
         ConfigOptions(configs[i]), last.pre)
\* Entry i is registered and its validator returns valid = false
EntryFails(configs, i) == Registered(configs, i) /\ ~EntryResult(configs, i).valid
\* Entry i is the first entry of the list that fails
FirstFailing(configs, i) ==
  /\ i \in 1..Len(configs)
  /\ EntryFails(configs, i)
  /\ \A j \in 1..(i - 1) : ~EntryFails(configs, j)
\* No entry of the list fails
AllPass(configs) == \A i \in 1..Len(configs) : ~EntryFails(configs, i)
InRange(calls) == {calls[k] : k \in 1..Len(calls)}

\* C1: runner short-circuit. When runValidators is called on an input that
\* passes the native check and entry i is the first entry whose registered
\* validator returns valid = false, no validator of an entry after i is
\* invoked, the call returns false, the input carries the invalid marker and
\* not the valid marker, and its custom-validity message is entry i's message.
C1_RunnerShortCircuit ==
  (RunnerCalled /\ ElementCheckValidity(PreInput)) =>
    \A i \in 1..Len(last.configs) :
      FirstFailing(last.configs, i) =>
        /\ \A k \in InRange(last.calls) : k <= i
        /\ i \in InRange(last.calls)
        /\ last.ret = FALSE
        /\ IsInvalidCls \in PostInput.classList
        /\ IsValidCls \notin PostInput.classList
        /\ PostInput.customValidity = EntryResult(last.configs, i).message

\* C1 witness: the first of two registered entries failed, the second would
\* have failed too with another message, and was not invoked.
C1_Witness ==
  /\ RunnerCalled /\ ElementCheckValidity(PreInput)
  /\ Len(last.configs) = 2
  /\ FirstFailing(last.configs, 1)
  /\ EntryFails(last.configs, 2)
  /\ EntryResult(last.configs, 2).message # EntryResult(last.configs, 1).message
  /\ last.calls = <<1>>
  /\ last.ret = FALSE

\* C2: runner native-first. Whenever the input's native validity is false
\* when runValidators is called, the call marks the input invalid, leaves its
\* custom-validity message unchanged, returns false and invokes no custom
\* validator, whatever the configured list is.
C2_RunnerNativeFirst ==
  (RunnerCalled /\ ~ElementCheckValidity(PreInput)) =>
    /\ last.ret = FALSE
    /\ last.calls = <<>>
    /\ IsInvalidCls \in PostInput.classList
    /\ IsValidCls \notin PostInput.classList
    /\ PostInput.customValidity = PreInput.customValidity

\* C2 witness: a natively invalid input carrying the valid marker was run
\* with a list whose first entry is registered and would have passed.
C2_Witness ==
  /\ RunnerCalled /\ ~ElementCheckValidity(PreInput)
  /\ IsValidCls \in PreInput.classList
  /\ Len(last.configs) >= 1
  /\ Registered(last.configs, 1)
  /\ EntryResult(last.configs, 1).valid
  /\ last.ret = FALSE

\* C3 as claimed: if every entry of the configured list passes (or the list is
\* empty), runValidators marks the field valid, clears its custom-validity
\* message and returns true.
C3_AsClaimed ==
  (RunnerCalled /\ AllPass(last.configs)) =>
    /\ last.ret = TRUE
    /\ IsValidCls \in PostInput.classList
    /\ IsInvalidCls \notin PostInput.classList
    /\ PostInput.customValidity = ""

\* C3 amended: if the input passes the native check and every entry of the
\* configured list passes (or the list is empty), runValidators marks the
\* field valid (valid marker set, invalid marker removed), leaves its
\* custom-validity message empty and returns true.
C3_RunnerSuccess ==
  (RunnerCalled /\ ElementCheckValidity(PreInput) /\ AllPass(last.configs)) =>
    /\ last.ret = TRUE
    /\ IsValidCls \in PostInput.classList
    /\ IsInvalidCls \notin PostInput.classList
    /\ PostInput.customValidity = ""

\* C3 witness: an input carrying the invalid marker passed the native check
\* and both registered entries of its list.
C3_Witness ==
  /\ RunnerCalled /\ ElementCheckValidity(PreInput)
  /\ IsInvalidCls \in PreInput.classList
  /\ Len(last.configs) = 2
  /\ Registered(last.configs, 1) /\ Registered(last.configs, 2)
  /\ AllPass(last.configs)
  /\ last.calls = <<1, 2>>
  /\ last.ret = TRUE

\* C4: an unregistered validator is a soft skip. For every configured list, an
\* entry whose name is not in the registry is skipped without counting as a
\* failure: runValidators returns the same result and leaves the same field
\* state as with that entry removed from the list, and the later entries are
\* still evaluated (as many validators are invoked as without the entry).
C4_UnregisteredSkipped ==
  RunnerCalled =>
    \A i \in 1..Len(last.configs) :
      ~Registered(last.configs, i) =>
        LET without == runValidators(PreInput, RemoveAt(last.configs, i),
                                     last.pre, validators)
        IN /\ last.ret = without.ret
           /\ PostInput = without.input
           /\ Len(last.calls) = Len(without.calls)
           /\ i \notin InRange(last.calls)

\* C4 witness: the first entry was unregistered, the second, registered, was
\* invoked and decided the result.
C4_Witness ==
  /\ RunnerCalled /\ ElementCheckValidity(PreInput)
  /\ Len(last.configs) = 2
  /\ ~Registered(last.configs, 1)
  /\ EntryFails(last.configs, 2)
  /\ last.calls = <<2>>
  /\ last.ret = FALSE

\* ------------------------------------------- orchestrator: what was called
OrchestratorCalled == last.op = "validateFormWithCustom"
\* The entries of the map whose field name resolves to a field of the form
RECURSIVE ResolvingEntries(_)
ResolvingEntries(map) ==
  IF map = <<>> THEN <<>>
  ELSE IF Head(map).fieldName \in DOMAIN last.pre.elements
       THEN <<Head(map)>> \o ResolvingEntries(Tail(map))
       ELSE ResolvingEntries(Tail(map))
\* What the runner returns for a resolving entry of the map
RunnerReturns(entry) ==
  runValidators(last.pre.elements[entry.fieldName], entry.validatorConfigs,
                last.pre, validators).ret

\* C5: orchestrator totality. In validateFormWithCustom(form, map) the runner
\* is invoked exactly once for every field name of the map that resolves to a
\* field of the form, in map order, even when the form-level native check has
\* failed and even when an earlier listed field has failed.
C5_OrchestratorTotality ==
  OrchestratorCalled =>
    LET resolving == ResolvingEntries(last.map)
    IN /\ Len(last.runs) = Len(resolving)
       /\ \A k \in 1..Len(resolving) : last.runs[k] = resolving[k].fieldName

\* C5 witness: the native stage had failed, the map listed three fields of the
\* form, the first of them failed, and all three were run.
C5_Witness ==
  /\ OrchestratorCalled
  /\ ~FormCheckValidity(last.pre)
  /\ Len(ResolvingEntries(last.map)) = 3
  /\ ~RunnerReturns(ResolvingEntries(last.map)[1])
  /\ Len(last.runs) = 3
  /\ last.ret = FALSE

\* C6: orchestrator result. validateFormWithCustom returns true if and only if
\* the form's aggregate native validity is true and the runner returned true
\* for every field of the map that exists in the form; a name of the map that
\* does not exist in the form is skipped and does not change the result.
C6_OrchestratorResult ==
  OrchestratorCalled =>
    (last.ret <=>
       /\ FormCheckValidity(last.pre)
       /\ \A k \in 1..Len(ResolvingEntries(last.map)) :
            RunnerReturns(ResolvingEntries(last.map)[k]))

\* C6 witness: the map listed a name the form lacks and a field whose runner
\* returned true, the native stage failed, and the call returned false.
C6_Witness ==
  /\ OrchestratorCalled
  /\ \E k \in 1..Len(last.map) : last.map[k].fieldName = MissingField
  /\ Len(last.runs) >= 1
  /\ \A k \in 1..Len(ResolvingEntries(last.map)) :
       RunnerReturns(ResolvingEntries(last.map)[k])
  /\ ~FormCheckValidity(last.pre)
  /\ last.ret = FALSE

\* C6 second case, reached as well: a missing name in the map and a true result
C6_MissingFieldTrue ==
  /\ OrchestratorCalled
  /\ \E k \in 1..Len(last.map) : last.map[k].fieldName = MissingField
  /\ last.ret = TRUE

\* C7 as claimed: after every call of validateFormWithCustom the form carries
\* the "was-validated" flag, whether the call returned true or false.
C7_AsClaimed ==
  OrchestratorCalled => WasValidatedCls \in form.classList

\* C7 amended: after every call of validateFormWithCustom that returned false
\* the form carries the "was-validated" flag; a call that returned true does
\* not set it (the flag is as it was before the call).
C7_WasValidatedOnFailure ==
  OrchestratorCalled =>
    /\ last.ret = FALSE => WasValidatedCls \in form.classList
    /\ last.ret = TRUE => form.classList = last.pre.classList

\* C7 witness: a call failed only on a custom validator (the native stage
\* passed) on a form that did not carry the flag, and the form carries it now.
C7_Witness ==
  /\ OrchestratorCalled
  /\ FormCheckValidity(last.pre)
  /\ WasValidatedCls \notin last.pre.classList
  /\ last.ret = FALSE
  /\ WasValidatedCls \in form.classList

\* C7 second case, reached as well: a call returned true and the form does not
\* carry the flag
C7_TrueWithoutFlag ==
  /\ OrchestratorCalled
  /\ last.ret = TRUE
  /\ WasValidatedCls \notin form.classList

\* --------------------------------------------------------------- registry
\* C8: registry last-write-wins. After any sequence of registerValidator
\* calls, getValidator(name) returns exactly the function most recently
\* registered under name, the registry holds at most one function per name,
\* and getValidator of a never-registered name returns undefined (the lookups
\* leave the registry as it is: the first two parts still hold after them).
C8_RegistryLastWriteWins ==
  /\ \A n \in AllNames :
       /\ getValidator(validators, n) = lastRegistered[n]
       /\ Cardinality({e \in validators : e.name = n}) <= 1
  /\ last.op = "getValidator" => last.fn = lastRegistered[last.field]

\* C8 witness: "phone", registered at load and twice since, was looked up and
\* the lookup returned a function other than the built-in.
C8_Witness ==
  /\ last.op = "getValidator"
  /\ last.field = "phone"
  /\ registrations >= 2
  /\ last.fn \notin {Undefined, FnPhone}

\* C8 second case, reached as well: the lookup of a never-registered name
C8_NeverRegistered ==
  /\ last.op = "getValidator"
  /\ last.field = "nope"
  /\ last.fn = Undefined

\* ---------------------------------------------------------- submit gating
SubmitHandled == last.op = "submit"
\* What the two gates say of the form as the submit event found it
NativePassed == FormCheckValidity(last.pre)
RangePassed ==
  validateDateTimeRange(last.pre.elements[StartField].value,
                        last.pre.elements[EndField].value).valid
NetworkCalled == requests = last.preRequests + 1

\* C9: after the listener has handled a submit event, submitFormData has been
\* called at most once, and only if the form passed native validation and the
\* start/end pair passed the date-range check; when either failed, no request
\* was started, nothing was queued for the network and the submit button was
\* left as it was (not put into its loading state).
C9_SubmitGating ==
  SubmitHandled =>
    /\ requests \in {last.preRequests, last.preRequests + 1}
    /\ NetworkCalled => NativePassed /\ RangePassed
    /\ NetworkCalled <=> last.ret
    /\ ~(NativePassed /\ RangePassed) =>
         /\ requests = last.preRequests
         /\ pending = last.prePending
         /\ submitButton = last.preButton

\* A submit event on a natively valid form whose end is not after its start:
\* the handler returned without a network call.
C9_Witness ==
  /\ SubmitHandled
  /\ NativePassed
  /\ ~RangePassed
  /\ ~NetworkCalled
  /\ form.elements[EndField].customValidity = EndAfterStartMsg

\* A submit event on a form that fails native validation: no network call
C9_NativeAbort ==
  SubmitHandled /\ ~NativePassed /\ ~NetworkCalled /\ WasValidatedCls \in form.classList

\* A submit event that passed both gates and reached the network
C9_Submitted ==
  SubmitHandled /\ NativePassed /\ RangePassed /\ NetworkCalled /\ pending # <<>>

\* ------------------------------------------------- end-to-end rejection
\* The scenario: every required field is filled, and start and end are both
\* "2030-01-01T00:00" when the submit event arrives
EqualDatesSubmitted ==
  /\ SubmitHandled
  /\ AllRequiredFilled(last.pre)
  /\ last.pre.elements[StartField].value = Date0000
  /\ last.pre.elements[EndField].value = Date0000

SettledCount == requests - Len(pending)
\* The continuation of a submission has just run
JustSettled == last.op \in {"resolved", "rejected"}

\* C12: every submission that put the button into its loading state
\* eventually has its continuation run, and whenever a continuation has run
\* (success path or failure path, whether or not a success or error callback
\* raised) the submit button is not disabled.
C12_GuaranteedCleanup ==
  /\ \A k \in 1..MaxRequests : (requests >= k) ~> (SettledCount >= k)
  /\ [](JustSettled => ~submitButton.disabled)

\* A submission resolved, its success callback raised, the error callback
\* raised too, and the button that showed the loading state is enabled again
C12_Witness ==
  /\ last.op = "resolved"
  /\ last.path = "error"
  /\ last.escaped
  /\ last.preButton.disabled
  /\ last.preButton.innerHTML = SpinnerLabel
  /\ ~submitButton.disabled

\* ------------------------------------------------- submissions in flight
InFlight == pending # <<>>

\* C13: in every reachable state with a submission in flight, the submit
\* button is disabled, whatever input, change, blur, picker-change and reset
\* events arrived while the submission was awaited.
C13_AsClaimed == InFlight => submitButton.disabled

\* C14: in every reachable state, under any interleaving of user events and
\* calls of instance.submit(), at most one network submission of the form is
\* in flight.
C14_AsClaimed == Len(pending) <= 1

\* ------------------------------------------------ after a submission
\* The values of the form's fields
Values(f) == [n \in DOMAIN f.elements |-> f.elements[n].value]
\* No field carries a valid or an invalid marker, no field has a custom
\* message and the form is not marked was-validated
StyleCleared(f) ==
  /\ WasValidatedCls \notin f.classList
  /\ \A n \in DOMAIN f.elements :
       /\ f.elements[n].classList \cap {IsValidCls, IsInvalidCls} = {}
       /\ f.elements[n].customValidity = ""
\* The form as a reset leaves it
IsReset(f) ==
  /\ \A n \in DOMAIN f.elements : f.elements[n].value = EmptyStr
  /\ StyleCleared(f)

\* C15: when the continuation of a submission has run, the form is reset
\* (values cleared, validation style cleared, pickers cleared) if and only if
\* the submission succeeded and resetOnSuccess is not false; otherwise every
\* field value is as the continuation found it.
C15_AsClaimed ==
  JustSettled =>
    IF last.op = "resolved" /\ ResetConfigured(formConfig)
    THEN IsReset(form)
    ELSE Values(form) = Values(last.pre)

\* C16: in every reachable state with no submission in flight, the submit
\* button is enabled if and only if every required field is non-empty.
C16_AsClaimed ==
  ~InFlight => (~submitButton.disabled <=> AllRequiredFilled(form))

\* ------------------------------------------------------ sweep and reset
\* The required fields that carry no touched marker
Untouched(f) ==
  {n \in DOMAIN f.elements :
     f.elements[n].required /\ TouchedCls \notin f.elements[n].classList}
\* A listener that ends with the sweep has just run on the current values
JustSwept == last.op \in {"change", "pick", "blur"}

\* C17 as stated: a required field without the touched marker carries
\* neither the valid nor the invalid marker.
C17_AsClaimed ==
  \A n \in Untouched(form) :
    form.elements[n].classList \cap {IsValidCls, IsInvalidCls} = {}

\* C17: a required field without the touched marker never carries the
\* invalid marker; the valid marker does not depend on the touched marker:
\* after a sweep an untouched required field carries it exactly when the
\* field is non-empty.
C17_InvalidOnlyWhenTouched ==
  \A n \in Untouched(form) :
    /\ IsInvalidCls \notin form.elements[n].classList
    /\ JustSwept =>
         (IsValidCls \in form.elements[n].classList
            <=> ~IsBlank(form.elements[n]))

\* A populated field nobody touched was marked valid by a sweep that another
\* field's blur started
C17_Witness ==
  /\ last.op = "blur"
  /\ \E n \in Untouched(form) :
       /\ ~IsBlank(form.elements[n])
       /\ IsValidCls \in form.elements[n].classList
  /\ \E n \in Untouched(form) :
       /\ IsBlank(form.elements[n])
       /\ form.elements[n].classList = {}

\* C18: after a reset event has been handled, no field carries a valid,
\* invalid or touched marker, every field's custom-validity message is empty,
\* every picker has been cleared, and the submit button is disabled.
C18_AsClaimed ==
  last.op = "reset" =>
    /\ \A n \in DOMAIN form.elements :
         /\ form.elements[n].classList
              \cap {IsValidCls, IsInvalidCls, TouchedCls} = {}
         /\ form.elements[n].customValidity = ""
         /\ form.elements[n].picker => form.elements[n].value = EmptyStr
    /\ submitButton.disabled

\* ------------------------------------------------------------- destroy
\* The latest event was handled after destroy had released the handles
AfterDestroy == last.preHandles = Released

SubElementMissing == ~submitButton.exists \/ EndField \notin DOMAIN form.elements

\* C20: on a form that lacks its submit button or its end-datetime field, no
\* exception escapes the submit listener.
C20_AsClaimed == SubmitHandled /\ SubElementMissing => ~last.escaped

\* ------------------------------------------------- markers and messages
\* C21: in every reachable state, a field that carries the valid marker has
\* an empty custom-validity message, and a field with a non-empty
\* custom-validity message carries the invalid marker.
C21_AsClaimed ==
  \A n \in DOMAIN form.elements :
    /\ IsValidCls \in form.elements[n].classList
         => form.elements[n].customValidity = ""
    /\ form.elements[n].customValidity # ""
         => IsInvalidCls \in form.elements[n].classList

\* C22: in every reachable state, after any sequence of runner calls, sweeps,
\* clears and resets, no input carries both the valid marker and the invalid
\* marker.
C22_MarkersExclusive ==
  \A n \in DOMAIN form.elements :
    ~(IsValidCls \in form.elements[n].classList
      /\ IsInvalidCls \in form.elements[n].classList)
\* The runner fails a field that the sweep had marked valid
C22_Witness ==
  /\ last.op = "runValidators"
  /\ ~last.ret
  /\ IsValidCls \in last.pre.elements[last.field].classList
  /\ IsInvalidCls \in form.elements[last.field].classList

\* ------------------------------------------------------ date-range checks
DateChecksApplied == last.op = "dateChecks"
StartValue == form.elements[StartField].value
EndValue == form.elements[EndField].value

\* C10 as claimed: for every pair of start/end values the submit-time check
\* accepts the pair exactly when the dateRange validator returns valid; in
\* particular an empty start or end value is accepted.
C10_AsClaimed ==
  DateChecksApplied => (last.check.valid <=> last.rule.valid)

\* C10 amended: for every pair of non-empty start/end values (malformed, or
\* parseable with end before, equal to or after start) the submit-time check
\* accepts the pair exactly when the dateRange validator returns valid; an
\* empty start or end value is rejected by the submit-time check with "Both
\* start and end date/time are required.", whereas dateRange returns valid.
C10_SubmitCheckVersusDateRange ==
  DateChecksApplied =>
    IF StartValue = EmptyStr \/ EndValue = EmptyStr
    THEN /\ ~last.check.valid
         /\ last.check.message = BothRequiredMsg
         /\ last.rule.valid
    ELSE last.check.valid <=> last.rule.valid

\* C10 witness: end equal to start, both parseable: both checks reject
C10_Witness ==
  /\ DateChecksApplied
  /\ StartValue = Date0000 /\ EndValue = Date0000
  /\ ~last.check.valid /\ ~last.rule.valid

\* C10 further cases, reached as well: end after start accepted by both; a
\* malformed end rejected by both; an empty start rejected at submit only
C10_BothAccept ==
  /\ DateChecksApplied
  /\ StartValue = Date2359 /\ EndValue = Date0000
  /\ last.check.valid /\ last.rule.valid
C10_MalformedRejected ==
  /\ DateChecksApplied
  /\ StartValue = Date0000 /\ EndValue = NotADate
  /\ ~last.check.valid /\ ~last.rule.valid
C10_EmptyStart ==
  /\ DateChecksApplied
  /\ StartValue = EmptyStr /\ EndValue = Date0000
  /\ ~last.check.valid /\ last.rule.valid

\* ------------------------------------------------------- built-in rules
\* The rule named n was applied
RuleApplied(n) == last.op = "rule" /\ ConfigName(last.configs[1]) = n
RuleOptions == ConfigOptions(last.configs[1])
\* The value of the field the rule was applied to
OwnValue == form.elements[last.field].value
DigitCount(v) == Cardinality({i \in 1..Len(v) : IsDigit(v[i])})

\* C23: the dateRange validator returns valid when either named field is
\* absent from the form or either raw value is empty; otherwise invalid with
\* "Invalid date format" when either value fails to parse; otherwise valid
\* if and only if the end is strictly after the start.
C23_DateRangeRule ==
  RuleApplied("dateRange") =>
    LET startInput == QuerySelector(form, RuleOptions.startField)
        endInput == QuerySelector(form, RuleOptions.endField)
    IN IF startInput = Null \/ endInput = Null
       THEN last.rule = Result(TRUE, "")
       ELSE LET sv == Deref(startInput).value
                ev == Deref(endInput).value
            IN IF sv = EmptyStr \/ ev = EmptyStr
               THEN last.rule = Result(TRUE, "")
               ELSE IF NewDate(sv).nan \/ NewDate(ev).nan
               THEN last.rule = Result(FALSE, DateFormatMsg)
               ELSE last.rule.valid <=> NewDate(ev).time > NewDate(sv).time
\* An end equal to the start is rejected
C23_Witness ==
  /\ RuleApplied("dateRange")
  /\ StartValue = Date0000 /\ EndValue = Date0000
  /\ RuleOptions.startField = StartField /\ RuleOptions.endField = EndField
  /\ ~last.rule.valid
\* Further cases reached: a field the form lacks, a malformed end
C23_AbsentField ==
  /\ RuleApplied("dateRange")
  /\ RuleOptions.startField = MissingField
  /\ StartValue = Date0000 /\ EndValue = Date0000
  /\ last.rule.valid
C23_Malformed ==
  /\ RuleApplied("dateRange")
  /\ RuleOptions.startField = StartField /\ RuleOptions.endField = EndField
  /\ StartValue = Date0000 /\ EndValue = BadMonth
  /\ last.rule = Result(FALSE, DateFormatMsg)

\* The phone rule in general: valid for the empty value, otherwise valid
\* exactly when the text holds 10 to 15 digit characters
PhoneRuleHolds ==
  RuleApplied("phone") =>
    (last.rule.valid <=>
       (OwnValue = EmptyStr \/ DigitCount(OwnValue) \in 10..15))
\* C24 as claimed: the phone rule, with "123-456-7890" valid, "12345" invalid
\* and "+1 (123) 456-7890 123" invalid.
C24_AsClaimed ==
  /\ PhoneRuleHolds
  /\ RuleApplied("phone") =>
       /\ OwnValue = Phone10 => last.rule.valid
       /\ OwnValue = PhoneShort => ~last.rule.valid
       /\ OwnValue = PhoneSpaced => ~last.rule.valid
\* C24 amended: the phone rule, with "123-456-7890" valid and "12345"
\* invalid; "+1 (123) 456-7890 123" holds 14 digits and is valid; a text of
\* 16 digits is invalid.
C24_PhoneRule ==
  /\ PhoneRuleHolds
  /\ RuleApplied("phone") =>
       /\ OwnValue = Phone10 => last.rule.valid
       /\ OwnValue = PhoneShort => ~last.rule.valid
       /\ OwnValue = PhoneSpaced => last.rule.valid
       /\ OwnValue = Phone16 => ~last.rule.valid
\* "+1 (123) 456-7890 123" is accepted
C24_Witness ==
  /\ RuleApplied("phone")
  /\ OwnValue = PhoneSpaced
  /\ DigitCount(OwnValue) = 14
  /\ last.rule.valid

\* The condition of conditionalRequired as the rule is described
ConditionHolds(target, equals) ==
  IF target.type = "checkbox"
  THEN equals.kind = "boolean" /\ target.checked = equals.bool
  ELSE equals.kind = "string" /\ target.value = equals.str
IsBlankText(v) == \A i \in 1..Len(v) : IsSpace(v[i])
\* C25: the conditionalRequired validator returns valid when the target field
\* is absent; otherwise, with a boolean `equals` for a checkbox target, the
\* result is invalid if and only if the condition holds (checked state equal
\* to `equals`, or value exactly equal to `equals`) and the own value is
\* empty or whitespace-only.
C25_ConditionalRequiredRule ==
  RuleApplied("conditionalRequired") =>
    LET targetInput == QuerySelector(form, RuleOptions.field)
    IN IF targetInput = Null
       THEN last.rule = Result(TRUE, "")
       ELSE LET target == Deref(targetInput)
            IN (target.type = "checkbox" => RuleOptions.equals.kind = "boolean")
               => (~last.rule.valid <=>
                     (ConditionHolds(target, RuleOptions.equals)
                      /\ IsBlankText(OwnValue)))
\* The condition holds and the own value is whitespace-only: invalid
C25_Witness ==
  /\ RuleApplied("conditionalRequired")
  /\ RuleOptions.field = ContactField
  /\ RuleOptions.equals = StrEquals(ByEmail)
  /\ form.elements[ContactField].value = ByEmail
  /\ OwnValue = Blank
  /\ ~last.rule.valid
\* Further cases reached: an unchecked checkbox with equals false requires
\* the field; a target that differs leaves a blank field valid
C25_Unchecked ==
  /\ RuleApplied("conditionalRequired")
  /\ RuleOptions.field = AgreeField
  /\ RuleOptions.equals = BoolEquals(FALSE)
  /\ ~form.elements[AgreeField].checked
  /\ OwnValue = EmptyStr
  /\ ~last.rule.valid
C25_TargetDiffers ==
  /\ RuleApplied("conditionalRequired")
  /\ RuleOptions.field = ContactField
  /\ RuleOptions.equals = StrEquals(ByEmail)
  /\ form.elements[ContactField].value = ByPost
  /\ OwnValue = EmptyStr
  /\ last.rule.valid

\* ---------------------------------------------------- form data extraction
\* The values of the entries named key, in entry order
ValuesOf(entries, key) ==
  LET named == SelectSeq(entries, LAMBDA en : en.key = key)
  IN [k \in 1..Len(named) |-> named[k].value]
\* C26: for every sequence of (name, value) entries, getFormData maps a name
\* that occurs once to its scalar value and a name that occurs k >= 2 times to
\* the sequence of all k values in entry order, whatever the values are.
C26_AsClaimed ==
  last.op = "getFormData" =>
    /\ DOMAIN last.data = {last.entries[i].key : i \in 1..Len(last.entries)}
    /\ \A key \in DOMAIN last.data :
         LET values == ValuesOf(last.entries, key)
         IN IF Len(values) = 1
            THEN last.data[key] = Scalar(values[1])
            ELSE last.data[key] = [isArray |-> TRUE, items |-> values]

\* ------------------------------------------------- history independence
\* The input's declarative constraints hold for its current value
DeclaredConstraintsHold(input) == ~(input.required /\ input.value = EmptyStr)
\* C27: the result of runValidators depends only on the current field values,
\* the fields' declarative constraints and the registry, not on earlier
\* calls: whenever the input's value satisfies its declarative constraints
\* and every configured validator passes on the current values, the call
\* returns true and marks the field valid, whatever calls came before.
C27_AsClaimed ==
  (RunnerCalled /\ DeclaredConstraintsHold(PreInput) /\ AllPass(last.configs)) =>
    /\ last.ret = TRUE
    /\ IsValidCls \in PostInput.classList
    /\ IsInvalidCls \notin PostInput.classList

\* ------------------------------------------------------------- retry
\* C28: after a submit was aborted by the date-range check, once the user has
\* changed the start and/or end value so that the end is strictly after the
\* start and every required field is filled, the next submit event passes
\* validation and reaches the network collaborator: a submit event on a form
\* whose values satisfy the native constraints and the date-range check
\* starts a request, whatever submits were rejected before it.
C28_AsClaimed ==
  (SubmitHandled /\ AllRequiredFilled(last.pre) /\ RangePassed) => NetworkCalled

\* -------------------------------------------------------- outcome paths
\* C29: a submission whose network call succeeded never takes the error
\* path: the error notification and the error callback are not invoked for
\* it, also when the success callback or the reset on success raises.
C29_AsClaimed ==
  last.op = "resolved" => last.path = "success"

\* --------------------------------------------------- released handles
\* C30: after destroy has released the picker handles, no later event of the
\* form (reset, successful submission with reset) invokes an operation on a
\* released handle.
C30_AsClaimed ==
  AfterDestroy => ~last.stale

\* ------------------------------------------------- button label
\* C31: whenever no submission of the form is in flight, the submit button
\* shows the label it had before the first submission, and the loading
\* spinner label is never saved as the button's original label, for any
\* interleaving of submit events and input events.
C31_AsClaimed ==
  /\ ~InFlight => submitButton.innerHTML = SubmitLabel
  /\ submitButton.originalText # SpinnerLabel

====
